---- MODULE Spec2Model ----
(***************************************************************************)
(* A model of acloud's local-instance lifecycle (create / relaunch /       *)
(* delete) and of its stateless instance discovery (process-table scan +   *)
(* command-line pattern matching).                                         *)
(*                                                                         *)
(*   create/local_image_local_instance.py   LocalImageLocalInstance        *)
(*   list/instance.py                       LocalInstance, RemoteInstance  *)
(*   delete/delete_test.py                  delete._GetStopCvd,            *)
(*                                          delete.DeleteLocalInstance     *)
(*                                                                         *)
(* Conventions.  Python's None is the empty tuple <<>> and a present value *)
(* x is <<x>>.  A path is the sequence of its components, a text is the    *)
(* sequence of its characters.                                             *)
(***************************************************************************)
EXTENDS Integers, Sequences, FiniteSets, TLC

VARIABLES
    running,    \* launch_cvd processes alive on the host: their executable paths
    inv,        \* per invoker: the position and locals of its acloud command
    ps,         \* the host's process table: ssh tunnels, launch_cvd processes
    call,       \* the listing call answered last, with its input (None: none)
    instance,   \* the Instance that call constructed (None: it returned None)
    ports,      \* the answer of GetAdbVncPortFromSSHTunnel, with its ip
    groups      \* the answer of _RE_LAUNCH_CVD.match on a line: its groups

lifecycleVars == <<running, inv>>
listVars == <<ps, call, instance, ports, groups>>
vars == <<running, inv, ps, call, instance, ports, groups>>

(***************************************************************************)
(* Bounds of the model.                                                    *)
(***************************************************************************)
NumInvokers == 2
MaxProcs == 2

Invokers == 1 .. NumInvokers

(***************************************************************************)
(* Values.                                                                 *)
(***************************************************************************)
None == <<>>
Some(x) == <<x>>

\* acloud.internal.constants (outside this tree): the default loopback ports.
DEFAULT_ADB_PORT == 6520
DEFAULT_VNC_PORT == 6444
LOCAL_INS_NAME == "local-instance"
TYPE_CF == "cuttlefish"
INS_STATUS_RUNNING == "RUNNING"
CMD_LAUNCH_CVD == "launch_cvd"
CMD_STOP_CVD == "stop_cvd"

\* Values of $ANDROID_HOST_OUT an invoker may run with (None: unset).
HostOutDirs == {<<"out", "host">>, <<"tmp">>}
HostOutEnv == {None} \cup {Some(d) : d \in HostOutDirs}

\* A subprocess exits with 0 or with a non-zero code (1 stands for all of them).
ExitCodes == {0, 1}

\* What os.path.join(None, ...) raises: AttributeError on Python 2's posixpath,
\* TypeError on Python 3's.
JoinNoneErrors == {"AttributeError", "TypeError"}

(***************************************************************************)
(* os.path                                                                 *)
(***************************************************************************)
PathJoin(a, b) == a \o b
Dirname(p) == IF Len(p) = 0 THEN p ELSE SubSeq(p, 1, Len(p) - 1)

(***************************************************************************)
(* An invoker's record.                                                    *)
(*   pc      position in the command                                       *)
(*   op      "", "create" or "delete"                                      *)
(*   log     the external effects of this command so far, in order:        *)
(*           [ev |-> name, rc |-> exit code]                               *)
(*   found   what utils.IsCommandRunning returned (None before the check)  *)
(*   procs_seen  the launch_cvd processes alive when that check ran        *)
(*   answer  what utils.GetUserAnswerYes returned (None before the prompt) *)
(*   error   the exception that left the command (None if none)            *)
(*   report  the report returned (None if none)                            *)
(***************************************************************************)
Idle ==
    [pc |-> "idle", op |-> "", image_ok |-> FALSE, host_out |-> None,
     launch_exists |-> FALSE, autoconnect |-> FALSE,
     launch_cvd_path |-> <<>>, stop_cvd_cmd |-> <<>>,
     found |-> None, procs_seen |-> <<>>, stop_exists |-> FALSE,
     answer |-> None,
     log |-> <<>>, error |-> None, report |-> None]

Event(name, rc) == [ev |-> name, rc |-> rc]

Init ==
    /\ running = <<>>
    /\ inv = [p \in Invokers |-> Idle]
    /\ ps = <<>>
    /\ call = None
    /\ instance = None
    /\ ports = None
    /\ groups = None

\* Single-operator usage: a command starts only when no other one is under way.
NoneUnderWay == \A q \in Invokers : inv[q].pc = "idle"

(***************************************************************************)
(* LocalImageLocalInstance._CreateAVD, entry.  The inputs of the run are   *)
(* the avd_spec (whether its local image directory verifies, autoconnect), *)
(* the environment ($ANDROID_HOST_OUT) and the file system (whether        *)
(* launch_cvd exists under $ANDROID_HOST_OUT/bin).                         *)
(***************************************************************************)
CreateAVD(p, solo) ==
    /\ inv[p].pc = "idle"
    /\ solo => NoneUnderWay
    /\ \E image_ok \in BOOLEAN, host_out \in HostOutEnv,
          launch_exists \in BOOLEAN, autoconnect \in BOOLEAN :
          inv' = [inv EXCEPT ![p] =
                    [Idle EXCEPT !.pc = "GetImageArtifactsPath",
                                 !.op = "create",
                                 !.image_ok = image_ok,
                                 !.host_out = host_out,
                                 !.launch_exists = launch_exists,
                                 !.autoconnect = autoconnect]]
    /\ UNCHANGED <<running, listVars>>

(***************************************************************************)
(* GetImageArtifactsPath: the exception it raises ("" if none) given the   *)
(* three facts it looks at.  join_error is what os.path.join raises on an  *)
(* unset $ANDROID_HOST_OUT.                                                *)
(***************************************************************************)
ArtifactsError(image_ok, host_out, launch_exists, join_error) ==
    IF ~image_ok THEN "GetLocalImageError"
    ELSE IF host_out = None THEN join_error
    ELSE IF ~launch_exists THEN "GetCvdLocalHostPackageError"
    ELSE ""

LaunchCvdPath(host_out) == PathJoin(host_out[1], <<"bin", CMD_LAUNCH_CVD>>)

\* GetImageArtifactsPath followed by PrepareLaunchCVDCmd (which only formats).
GetImageArtifactsPath(p) ==
    /\ inv[p].pc = "GetImageArtifactsPath"
    /\ \E join_error \in JoinNoneErrors :
          LET err == ArtifactsError(inv[p].image_ok, inv[p].host_out,
                                    inv[p].launch_exists, join_error)
          IN  inv' = [inv EXCEPT ![p] =
                        IF err # ""
                        THEN [@ EXCEPT !.pc = "raised", !.error = Some(err)]
                        ELSE [@ EXCEPT !.pc = "IsCommandRunning",
                                       !.launch_cvd_path =
                                            LaunchCvdPath(inv[p].host_out)]]
    /\ UNCHANGED <<running, listVars>>

(***************************************************************************)
(* CheckLaunchCVD                                                          *)
(***************************************************************************)
\* utils.IsCommandRunning(CMD_LAUNCH_CVD) over the processes alive now.
IsCommandRunning(procs) == Len(procs) > 0

AfterCheckNoPrompt(found) == "launch_cvd"

\* line 151: a running instance leads to the prompt, none to the launch.
AfterCheck(found) == IF found THEN "GetUserAnswerYes" ELSE "launch_cvd"

CheckLaunchCVD_IsCommandRunning(p) ==
    /\ inv[p].pc = "IsCommandRunning"
    /\ LET found == IsCommandRunning(running)
       IN  inv' = [inv EXCEPT ![p] =
                     [@ EXCEPT !.pc = AfterCheck(found),
                               !.found = Some(found),
                               !.procs_seen = running,
                               !.log = Append(@, Event("IsCommandRunning", 0))]]
    /\ UNCHANGED <<running, listVars>>

AfterAnswerAlwaysStop(yes) == "stop_cvd"

AfterAnswerLaunchAnyway(yes) == IF yes THEN "stop_cvd" ELSE "launch_cvd"

\* lines 153-163: "y" leads to stop_cvd, anything else to sys.exit().
AfterAnswer(yes) == IF yes THEN "stop_cvd" ELSE "exited"

StopCvdCmd(launch_cvd_path) ==
    PathJoin(Dirname(launch_cvd_path), <<CMD_STOP_CVD>>)

CheckLaunchCVD_GetUserAnswerYes(p) ==
    /\ inv[p].pc = "GetUserAnswerYes"
    /\ \E yes \in BOOLEAN :
          inv' = [inv EXCEPT ![p] =
                    [@ EXCEPT !.pc = AfterAnswer(yes),
                              !.answer = Some(yes),
                              !.stop_cvd_cmd =
                                  IF yes THEN StopCvdCmd(inv[p].launch_cvd_path)
                                  ELSE @,
                              !.log = Append(@, Event("GetUserAnswerYes", 0))]]
    /\ UNCHANGED <<running, listVars>>

\* The host after stop_cvd ran: exit code 0 means every instance is stopped.
AfterStopCvd(procs, rc) == IF rc = 0 THEN <<>> ELSE procs

AfterStopFailedIgnored(rc) == "launch_cvd"

\* lines 157-160: check_call raises CalledProcessError on a non-zero exit.
AfterStop(rc) == IF rc = 0 THEN "launch_cvd" ELSE "raised"

CheckLaunchCVD_stop_cvd(p) ==
    /\ inv[p].pc = "stop_cvd"
    /\ \E rc \in ExitCodes :
          /\ running' = AfterStopCvd(running, rc)
          /\ inv' = [inv EXCEPT ![p] =
                       [@ EXCEPT !.pc = AfterStop(rc),
                                 !.error = IF AfterStop(rc) = "raised"
                                           THEN Some("CalledProcessError")
                                           ELSE @,
                                 !.log = Append(@, Event("stop_cvd", rc))]]
    /\ UNCHANGED listVars

\* The host after launch_cvd --daemon ran: exit code 0 means the instance is up.
AfterLaunchCvd(procs, path, rc) == IF rc = 0 THEN Append(procs, path) ELSE procs

AfterLaunchFailedIgnored(rc) == "Report"

\* lines 165-173: a non-zero exit becomes LaunchCVDFail, which _CreateAVD
\* (lines 66-69) raises again.
AfterLaunch(rc) == IF rc = 0 THEN "Report" ELSE "raised"

CheckLaunchCVD_launch_cvd(p) ==
    /\ inv[p].pc = "launch_cvd"
    /\ \E rc \in ExitCodes :
          /\ running' = AfterLaunchCvd(running, inv[p].launch_cvd_path, rc)
          /\ inv' = [inv EXCEPT ![p] =
                       [@ EXCEPT !.pc = AfterLaunch(rc),
                                 !.error = IF AfterLaunch(rc) = "raised"
                                           THEN Some("LaunchCVDFail")
                                           ELSE @,
                                 !.log = Append(@, Event("launch_cvd", rc))]]
    /\ UNCHANGED listVars

(***************************************************************************)
(* _CreateAVD, lines 71-79: the report, and the vnc client on autoconnect. *)
(***************************************************************************)
CreateReport ==
    [command |-> LOCAL_INS_NAME, status |-> "SUCCESS",
     data |-> [devices |-> [adb_port |-> DEFAULT_ADB_PORT,
                            vnc_port |-> DEFAULT_VNC_PORT]]]

CreateAVD_Report(p) ==
    /\ inv[p].pc = "Report"
    /\ inv' = [inv EXCEPT ![p] =
                 [@ EXCEPT !.pc = "returned",
                           !.report = Some(CreateReport),
                           !.log = IF inv[p].autoconnect
                                   THEN @ \o <<Event("Report", 0),
                                               Event("LaunchVNCFromReport", 0)>>
                                   ELSE Append(@, Event("Report", 0))]]
    /\ UNCHANGED <<running, listVars>>

(***************************************************************************)
(* delete.DeleteLocalInstance and delete._GetStopCvd.  delete.py is not in *)
(* this tree (delete_test.py is): the three steps below follow the         *)
(* specification's description of deletion and the test's expectations.    *)
(***************************************************************************)
DeleteLocalInstance(p, solo) ==
    /\ inv[p].pc = "idle"
    /\ solo => NoneUnderWay
    /\ \E host_out \in HostOutEnv :
          inv' = [inv EXCEPT ![p] =
                    [Idle EXCEPT !.pc = "GetStopCvd", !.op = "delete",
                                 !.host_out = host_out]]
    /\ UNCHANGED <<running, listVars>>

GetStopCvdFromConfig(procs, stop_exists) ==
    IF Len(procs) > 0 /\ stop_exists
    THEN <<"out", "host", "bin", CMD_STOP_CVD>>
    ELSE <<>>

\* The stop command: stop_cvd beside the executable of the first running
\* launch_cvd process, if that file exists; the empty string otherwise.
GetStopCvd(procs, stop_exists) ==
    IF Len(procs) > 0 /\ stop_exists
    THEN PathJoin(Dirname(procs[1]), <<CMD_STOP_CVD>>)
    ELSE <<>>

DeleteLocalInstance_GetStopCvd(p) ==
    /\ inv[p].pc = "GetStopCvd"
    /\ \E stop_exists \in BOOLEAN :
          inv' = [inv EXCEPT ![p] =
                    [@ EXCEPT !.pc = "delete_stop_cvd",
                              !.found = Some(IsCommandRunning(running)),
                              !.procs_seen = running,
                              !.stop_exists = stop_exists,
                              !.stop_cvd_cmd = GetStopCvd(running, stop_exists),
                              !.log = Append(@, Event("GetStopCvd", 0))]]
    /\ UNCHANGED <<running, listVars>>

\* A failing stop command is not described for deletion; it is taken to leave
\* the command as an error, like every failure that is not handled.
DeleteLocalInstance_stop_cvd(p) ==
    /\ inv[p].pc = "delete_stop_cvd"
    /\ \E rc \in ExitCodes :
          /\ running' = AfterStopCvd(running, rc)
          /\ inv' = [inv EXCEPT ![p] =
                       [@ EXCEPT !.pc = IF rc = 0 THEN "delete_Report"
                                        ELSE "raised",
                                 !.error = IF rc = 0 THEN @
                                           ELSE Some("CalledProcessError"),
                                 !.log = Append(@, Event("stop_cvd", rc))]]
    /\ UNCHANGED listVars

DeleteReportNothingDeleted ==
    [command |-> "delete", status |-> "SUCCESS", data |-> [deleted |-> <<>>]]

DeleteReport ==
    [command |-> "delete", status |-> "SUCCESS",
     data |-> [deleted |-> <<[type |-> "instance", name |-> LOCAL_INS_NAME]>>]]

DeleteLocalInstance_Report(p) ==
    /\ inv[p].pc = "delete_Report"
    /\ inv' = [inv EXCEPT ![p] =
                 [@ EXCEPT !.pc = "returned",
                           !.report = Some(DeleteReport),
                           !.log = Append(@, Event("Report", 0))]]
    /\ UNCHANGED <<running, listVars>>

\* The command is over (returned, raised or exited): the invoker is free again.
Over(p) == inv[p].pc \in {"returned", "raised", "exited"}

Finish(p) ==
    /\ Over(p)
    /\ inv' = [inv EXCEPT ![p] = Idle]
    /\ UNCHANGED <<running, listVars>>

Next ==
    \E p \in Invokers :
        \/ CreateAVD(p, TRUE)
        \/ GetImageArtifactsPath(p)
        \/ CheckLaunchCVD_IsCommandRunning(p)
        \/ CheckLaunchCVD_GetUserAnswerYes(p)
        \/ CheckLaunchCVD_stop_cvd(p)
        \/ CheckLaunchCVD_launch_cvd(p)
        \/ CreateAVD_Report(p)
        \/ DeleteLocalInstance(p, TRUE)
        \/ DeleteLocalInstance_GetStopCvd(p)
        \/ DeleteLocalInstance_stop_cvd(p)
        \/ DeleteLocalInstance_Report(p)
        \/ Finish(p)

Spec == Init /\ [][Next]_vars

(***************************************************************************)
(* Creations invoked concurrently: nothing in _CreateAVD or CheckLaunchCVD *)
(* takes a lock, so the steps of two creations interleave freely.  Any two *)
(* of the invokers may have a creation under way at a time.                *)
(***************************************************************************)
OneOtherAtMost == Cardinality({q \in Invokers : inv[q].pc # "idle"}) <= 1

CreateAVD_concurrent(p) ==
    /\ OneOtherAtMost
    /\ CreateAVD(p, FALSE)

NextRace ==
    \E p \in Invokers :
        \/ CreateAVD_concurrent(p)
        \/ GetImageArtifactsPath(p)
        \/ CheckLaunchCVD_IsCommandRunning(p)
        \/ CheckLaunchCVD_GetUserAnswerYes(p)
        \/ CheckLaunchCVD_stop_cvd(p)
        \/ CheckLaunchCVD_launch_cvd(p)
        \/ CreateAVD_Report(p)
        \/ Finish(p)

SpecRace == Init /\ [][NextRace]_vars

(***************************************************************************)
(* Texts: sequences of characters.                                         *)
(***************************************************************************)
DigitChars == <<"0", "1", "2", "3", "4", "5", "6", "7", "8", "9">>
Digits == {DigitChars[i] : i \in 1 .. 10}
Whitespace == {" ", "\t"}

DigitValue(c) == CHOOSE d \in 0 .. 9 : DigitChars[d + 1] = c

\* "%d" % n and "%s" % n for a non-negative integer n.
RECURSIVE Str(_)
Str(n) ==
    IF n < 10 THEN <<DigitChars[n + 1]>>
    ELSE Str(n \div 10) \o <<DigitChars[(n % 10) + 1]>>

\* int(text) for a text of decimal digits.
RECURSIVE ParseInt(_)
ParseInt(text) ==
    IF Len(text) = 0 THEN 0
    ELSE 10 * ParseInt(SubSeq(text, 1, Len(text) - 1)) + DigitValue(text[Len(text)])

\* sub in text
Contains(text, sub) ==
    \E i \in 1 .. (Len(text) - Len(sub) + 1) :
        SubSeq(text, i, i + Len(sub) - 1) = sub

LOOPBACK == <<"1", "2", "7", ".", "0", ".", "0", ".", "1">>

(***************************************************************************)
(* Python's re, as the backtracking matcher it is.  A pattern is a program *)
(* of instructions:                                                        *)
(*   lit    a run of one-character items, each matched once                *)
(*   rep    one one-character item, x or more times, greedy                *)
(*   split  try the instruction x further on, and the one y further on     *)
(*          when that fails (offsets are relative to the split): the       *)
(*          greedy choice of (...)? and (...)+                             *)
(*   save   record the position as boundary x of a named group             *)
(*   match  the pattern is matched (re.match does not look further)        *)
(* One-character items: a character, "." (any), "\d", "\s", "[^/]".        *)
(***************************************************************************)
Char(c) == [class |-> "char", c |-> c]
AnyChar == [class |-> "any", c |-> ""]
Digit == [class |-> "digit", c |-> ""]
Space == [class |-> "space", c |-> ""]
NotSlash == [class |-> "notslash", c |-> ""]

Accepts(item, c) ==
    CASE item.class = "char" -> c = item.c
      [] item.class = "any" -> c # "\n"
      [] item.class = "digit" -> c \in Digits
      [] item.class = "space" -> c \in Whitespace
      [] item.class = "notslash" -> c # "/"

Ins(op, items, x, y) == [op |-> op, items |-> items, x |-> x, y |-> y]

Lit(items) == <<Ins("lit", items, 0, 0)>>
Star(item) == <<Ins("rep", <<item>>, 0, 0)>>                     \* item*
Plus(item) == <<Ins("rep", <<item>>, 1, 0)>>                     \* item+
Split(x, y) == Ins("split", <<>>, x, y)
Save(n) == Ins("save", <<>>, n, 0)
Match == Ins("match", <<>>, 0, 0)
Optional(frag) == <<Split(1, Len(frag) + 1)>> \o frag            \* (frag)?
Repeated(frag) == frag \o <<Split(-Len(frag), 1)>>               \* (frag)+
Group(n, frag) == <<Save(2 * n - 1)>> \o frag \o <<Save(2 * n)>> \* (?P<n>frag)

\* A text put into a pattern as it is: "." stays the wildcard, every other
\* character of the texts used here stands for itself.
Pattern(text) ==
    Lit([i \in 1 .. Len(text) |->
            IF text[i] = "." THEN AnyChar ELSE Char(text[i])])

\* A text put into a pattern with every character standing for itself.
Escaped(text) == Lit([i \in 1 .. Len(text) |-> Char(text[i])])

NoMatch == [ok |-> FALSE, caps |-> <<>>]

\* How many characters from position sp on the item accepts in a row.
RunLength(item, text, sp) ==
    LET stop == CHOOSE j \in sp .. Len(text) + 1 :
                    /\ j = Len(text) + 1 \/ ~Accepts(item, text[j])
                    /\ \A i \in sp .. j - 1 : Accepts(item, text[i])
    IN  stop - sp

LitAccepts(items, text, sp) ==
    /\ sp + Len(items) - 1 <= Len(text)
    /\ \A i \in 1 .. Len(items) : Accepts(items[i], text[sp + i - 1])

\* Whether prog from instruction pc on matches text from position sp on:
\* whether the backtracking search started there finds a match.
RECURSIVE Matches(_, _, _, _)
Matches(prog, text, pc, sp) ==
    LET ins == prog[pc]
    IN  CASE ins.op = "match" -> TRUE
          [] ins.op = "split" ->
                \/ Matches(prog, text, pc + ins.x, sp)
                \/ Matches(prog, text, pc + ins.y, sp)
          [] ins.op = "save" -> Matches(prog, text, pc + 1, sp)
          [] ins.op = "lit" ->
                /\ LitAccepts(ins.items, text, sp)
                /\ Matches(prog, text, pc + 1, sp + Len(ins.items))
          [] ins.op = "rep" ->
                \E k \in ins.x .. RunLength(ins.items[1], text, sp) :
                    Matches(prog, text, pc + 1, sp + k)

\* The group boundaries of the match the backtracking search finds first,
\* given that there is one (Matches): at a split the first branch that leads
\* to a match, at a repetition the longest run that leads to a match.
RECURSIVE Run(_, _, _, _, _)
Run(prog, text, pc, sp, caps) ==
    LET ins == prog[pc]
    IN  CASE ins.op = "match" -> caps
          [] ins.op = "split" ->
                IF Matches(prog, text, pc + ins.x, sp)
                THEN Run(prog, text, pc + ins.x, sp, caps)
                ELSE Run(prog, text, pc + ins.y, sp, caps)
          [] ins.op = "save" ->
                Run(prog, text, pc + 1, sp, [caps EXCEPT ![ins.x] = sp])
          [] ins.op = "lit" ->
                Run(prog, text, pc + 1, sp + Len(ins.items), caps)
          [] ins.op = "rep" ->
                LET most == RunLength(ins.items[1], text, sp)
                    \* how much shorter than the longest run the first match is
                    skip == CHOOSE j \in 0 .. most - ins.x :
                            /\ Matches(prog, text, pc + 1, sp + most - j)
                            /\ \A i \in 0 .. j - 1 :
                                  ~Matches(prog, text, pc + 1, sp + most - i)
                IN  Run(prog, text, pc + 1, sp + most - skip, caps)

\* re.compile(...).match(text): anchored at the start of text only.
ReMatch(prog, ngroups, text) ==
    IF Matches(prog, text, 1, 1)
    THEN [ok |-> TRUE,
          caps |-> Run(prog, text, 1, 1, [i \in 1 .. 2 * ngroups |-> 0])]
    ELSE NoMatch

\* match.group(n): None for a group that took no part in the match.
MatchGroup(m, text, n) ==
    IF m.caps[2 * n - 1] = 0 \/ m.caps[2 * n] = 0 THEN None
    ELSE Some(SubSeq(text, m.caps[2 * n - 1], m.caps[2 * n] - 1))

(***************************************************************************)
(* _RE_SSH_TUNNEL_PATTERN, formatted for an ip (instance.py lines 41-43    *)
(* and 279-281):                                                           *)
(*   ((.*\s*-L\s)(?P<local_vnc_port>\d+):127.0.0.1:<vnc>)                  *)
(*   ((.*\s*-L\s)(?P<local_adb_port>\d+):127.0.0.1:<adb>)                  *)
(*   (.+<ip>)                                                              *)
(* The two ports and the ip are formatted into the pattern unescaped.      *)
(***************************************************************************)
RE_GROUP_VNC == 1
RE_GROUP_ADB == 2

ForwardClause(group, port) ==
    Star(AnyChar) \o Star(Space) \o Lit(<<Char("-"), Char("L"), Space>>)
        \o Group(group, Plus(Digit))
        \o Lit(<<Char(":")>>) \o Pattern(LOOPBACK) \o Lit(<<Char(":")>>)
        \o Pattern(Str(port))

SshTunnelPattern(ip) ==
    ForwardClause(RE_GROUP_VNC, DEFAULT_VNC_PORT)
        \o ForwardClause(RE_GROUP_ADB, DEFAULT_ADB_PORT)
        \o Plus(AnyChar) \o Pattern(ip) \o <<Match>>

ForwardedPorts(vnc_port, adb_port) ==
    [vnc_port |-> vnc_port, adb_port |-> adb_port]

\* The loop of lines 285-290 over the lines from index i on.
RECURSIVE TunnelScan(_, _, _)
TunnelScan(prog, lines, i) ==
    IF i > Len(lines) THEN ForwardedPorts(None, None)
    ELSE LET m == ReMatch(prog, 2, lines[i])
         IN  IF m.ok
             THEN ForwardedPorts(
                      Some(ParseInt(MatchGroup(m, lines[i], RE_GROUP_VNC)[1])),
                      Some(ParseInt(MatchGroup(m, lines[i], RE_GROUP_ADB)[1])))
             ELSE TunnelScan(prog, lines, i + 1)

\* RemoteInstance.GetAdbVncPortFromSSHTunnel over the output of `ps`.
GetAdbVncPortFromSSHTunnel(ip, process_output) ==
    TunnelScan(SshTunnelPattern(ip), process_output, 1)

(***************************************************************************)
(* The process table.  An ssh tunnel process forwards a local port to the  *)
(* instance's vnc port and another to its adb port; its command line is    *)
(*   ssh -L <vnc local>:127.0.0.1:<vnc remote>                             *)
(*       -L <adb local>:127.0.0.1:<adb remote> -N v@<ip>                   *)
(***************************************************************************)
Tunnel(vnc_local, vnc_remote, adb_local, adb_remote, ip) ==
    [kind |-> "ssh",
     vnc |-> [local |-> vnc_local, remote |-> vnc_remote],
     adb |-> [local |-> adb_local, remote |-> adb_remote],
     ip |-> ip]

IP_A == <<"1", ".", "1", ".", "1", ".", "1">>
IP_A_LONGER == <<"1", ".", "1", ".", "1", ".", "1", "2">>
IP_A_DOTLESS == <<"1", "1", "1", ".", "1", ".", "1", ".", "5">>
IP_B == <<"9", ".", "9", ".", "9", ".", "9">>

\* The tunnels a host may hold: to the two instances' addresses, with a
\* local port 0, to addresses that resemble IP_A, to other remote ports.
TunnelProcs ==
    {Tunnel(12, DEFAULT_VNC_PORT, 340, DEFAULT_ADB_PORT, IP_A),
     Tunnel(12, DEFAULT_VNC_PORT, 0, DEFAULT_ADB_PORT, IP_A),
     Tunnel(7, DEFAULT_VNC_PORT, 8, DEFAULT_ADB_PORT, IP_A_LONGER),
     Tunnel(9, DEFAULT_VNC_PORT, 10, DEFAULT_ADB_PORT, IP_A_DOTLESS),
     Tunnel(5, 10 * DEFAULT_VNC_PORT, 6, DEFAULT_ADB_PORT, IP_A),
     Tunnel(3, DEFAULT_VNC_PORT, 4, 7000, IP_A),
     Tunnel(1, DEFAULT_VNC_PORT, 2, DEFAULT_ADB_PORT, IP_B)}

InstanceIPs == {IP_A, IP_B}

ForwardArg(port) ==
    <<"-", "L", " ">> \o Str(port.local) \o <<":">> \o LOOPBACK \o <<":">>
        \o Str(port.remote)

TunnelCmd(proc) ==
    <<"s", "s", "h", " ">> \o ForwardArg(proc.vnc) \o <<" ">>
        \o ForwardArg(proc.adb) \o <<" ", "-", "N", " ", "v", "@">> \o proc.ip

(***************************************************************************)
(* A launch_cvd process has the command line PrepareLaunchCVDCmd builds    *)
(* (local_image_local_instance.py lines 37-41 and 131-134), with the       *)
(* hardware flags its invoker gave:                                        *)
(*   <dir>/launch_cvd --daemon [--<flag> <value>]... --data_policy         *)
(*       always_create --system_image_dir /img --vnc_server_port 6444      *)
(* One started by hand may have the hardware flags only, or none.          *)
(***************************************************************************)
Flag(name, value) == [name |-> name, value |-> value]

FLAG_CPUS == <<"c", "p", "u", "s">>
FLAG_X_RES == <<"x", "_", "r", "e", "s">>
FLAG_Y_RES == <<"y", "_", "r", "e", "s">>
FLAG_DPI == <<"d", "p", "i">>
FLAG_MEMORY_MB == <<"m", "e", "m", "o", "r", "y", "_", "m", "b">>
FLAG_BLANK_DATA_IMAGE_MB ==
    <<"b", "l", "a", "n", "k", "_", "d", "a", "t", "a", "_",
      "i", "m", "a", "g", "e", "_", "m", "b">>

LaunchCvd(lstart, dir, flags) ==
    [kind |-> "launch_cvd", lstart |-> lstart, dir |-> dir, flags |-> flags,
     more |-> TRUE]

LaunchCvdByHand(lstart, dir, flags) ==
    [LaunchCvd(lstart, dir, flags) EXCEPT !.more = FALSE]

RECURSIVE FlagArgs(_)
FlagArgs(flags) ==
    IF Len(flags) = 0 THEN <<>>
    ELSE <<" ", "-", "-">> \o Head(flags).name \o <<" ">>
             \o Str(Head(flags).value) \o FlagArgs(Tail(flags))

LaunchCvdCmd(proc) ==
    proc.dir
        \o <<"/", "l", "a", "u", "n", "c", "h", "_", "c", "v", "d",
              " ", "-", "-", "d", "a", "e", "m", "o", "n">>
        \o FlagArgs(proc.flags)
        \o (IF proc.more
            THEN <<" ", "-", "-", "d", "a", "t", "a", "_", "p", "o", "l", "i", "c", "y",
                   " ", "a", "l", "w", "a", "y", "s", "_", "c", "r", "e", "a", "t", "e",
                   " ", "-", "-", "s", "y", "s", "t", "e", "m", "_",
                   "i", "m", "a", "g", "e", "_", "d", "i", "r", " ", "/", "i", "m", "g",
                   " ", "-", "-", "v", "n", "c", "_", "s", "e", "r", "v", "e", "r", "_",
                   "p", "o", "r", "t", " ">>
                     \o Str(DEFAULT_VNC_PORT)
            ELSE <<>>)

LSTART_JAN == <<"M", "o", "n", " ", "J", "a", "n", " ", " ", "1", " ",
                "0", "0", ":", "0", "0", ":", "0", "0", " ", "2", "0", "2", "4">>
LSTART_FEB == <<"T", "u", "e", " ", "F", "e", "b", " ", " ", "2", " ",
                "0", "1", ":", "0", "2", ":", "0", "3", " ", "2", "0", "2", "4">>
LSTART_MAR == <<"S", "u", "n", " ", "M", "a", "r", " ", " ", "3", " ",
                "0", "4", ":", "0", "5", ":", "0", "6", " ", "2", "0", "2", "4">>
BIN_DIR == <<"/", "t", "m", "p", "/", "b", "i", "n">>

\* The launch_cvd processes a host may hold: with every hardware flag, with
\* some of them, with none, and one started by hand with no argument more.
LaunchProcs ==
    {LaunchCvd(LSTART_JAN, BIN_DIR,
               <<Flag(FLAG_CPUS, 2), Flag(FLAG_X_RES, 720),
                 Flag(FLAG_Y_RES, 1280), Flag(FLAG_DPI, 320),
                 Flag(FLAG_MEMORY_MB, 2048),
                 Flag(FLAG_BLANK_DATA_IMAGE_MB, 4096)>>),
     LaunchCvd(LSTART_FEB, BIN_DIR,
               <<Flag(FLAG_X_RES, 1080), Flag(FLAG_DPI, 240)>>),
     LaunchCvd(LSTART_FEB, BIN_DIR, <<>>),
     LaunchCvdByHand(LSTART_MAR, BIN_DIR, <<>>)}

Procs == TunnelProcs \cup LaunchProcs

Cmd(proc) ==
    IF proc.kind = "ssh" THEN TunnelCmd(proc) ELSE LaunchCvdCmd(proc)

\* A line of `ps -eo lstart,cmd`; the tunnels were all started at one time.
LstartCmdLine(proc) ==
    (IF proc.kind = "ssh" THEN LSTART_JAN ELSE proc.lstart)
        \o <<" ">> \o Cmd(proc)

\* subprocess.check_output(constants.COMMAND_PS).splitlines(): of each line,
\* the command (the columns before it hold no text a pattern looks for).
PsOutput(procs) == [i \in 1 .. Len(procs) |-> Cmd(procs[i])]

\* subprocess.check_output(_COMMAND_PS_LAUNCH_CVD).splitlines()
PsLstartOutput(procs) == [i \in 1 .. Len(procs) |-> LstartCmdLine(procs[i])]

RECURSIVE SeqsUpTo(_, _)
SeqsUpTo(S, n) ==
    IF n = 0 THEN {<<>>}
    ELSE LET shorter == SeqsUpTo(S, n - 1)
         IN  shorter \cup {Append(s, x) : s \in shorter, x \in S}

(***************************************************************************)
(* Instance (instance.py lines 57-72) and RemoteInstance.                  *)
(***************************************************************************)
NewInstance ==
    [name |-> None, fullname |-> None, status |-> None, display |-> None,
     ip |-> None, adb_port |-> None, vnc_port |-> None,
     ssh_tunnel_is_connected |-> None, createtime |-> None,
     avd_type |-> None, avd_flavor |-> None, is_local |-> None]

\* _FULL_NAME_STRING % {"device_serial": ..., "instance_name": ...}; "%s" of
\* None is "None".
FullName(device_serial, instance_name) ==
    <<"d", "e", "v", "i", "c", "e", " ", "s", "e", "r", "i", "a", "l", ":", " ">>
        \o device_serial \o <<" ", "(">>
        \o (IF instance_name = None THEN <<"N", "o", "n", "e">>
            ELSE instance_name[1])
        \o <<")">>

NOT_CONNECTED ==
    <<"n", "o", "t", " ", "c", "o", "n", "n", "e", "c", "t", "e", "d">>

\* "127.0.0.1:%d" % port
LoopbackSerial(port) == LOOPBACK \o <<":">> \o Str(port)

\* Python's truth value of an optional text, and of an optional integer.
TruthyText(v) == v # None /\ Len(v[1]) > 0
TruthyInt(v) == v # None /\ v[1] # 0

\* lines 234-237: every natIP in turn is assigned to ip.
RECURSIVE LastNatIP(_, _)
LastNatIP(access_configs, ip) ==
    IF Len(access_configs) = 0 THEN ip
    ELSE LastNatIP(Tail(access_configs), Head(access_configs).natIP)

RECURSIVE NatIPOf(_, _)
NatIPOf(network_interfaces, ip) ==
    IF Len(network_interfaces) = 0 THEN ip
    ELSE NatIPOf(Tail(network_interfaces),
                 LastNatIP(Head(network_interfaces).accessConfigs, ip))

\* lines 257-265: the metadata items, in order.
RECURSIVE WithMetadata(_, _)
WithMetadata(self, items) ==
    IF Len(items) = 0 THEN self
    ELSE LET key == Head(items).key
             value == Some(Head(items).value)
         IN  WithMetadata(
                 CASE key = "display" -> [self EXCEPT !.display = value]
                   [] key = "avd_type" -> [self EXCEPT !.avd_type = value]
                   [] key = "avd_flavor" -> [self EXCEPT !.avd_flavor = value]
                   [] OTHER -> self,
                 Tail(items))

\* lines 239-254, given the ip found and the answer of the tunnel scan.
WithTunnel(self, ip, forwarded_ports) ==
    LET found == [self EXCEPT !.ip = ip,
                              !.adb_port = forwarded_ports.adb_port,
                              !.vnc_port = forwarded_ports.vnc_port]
    IN  IF TruthyInt(found.adb_port)
        THEN [found EXCEPT
                 !.ssh_tunnel_is_connected = Some(TRUE),
                 !.fullname = Some(FullName(LoopbackSerial(found.adb_port[1]),
                                            found.name))]
        ELSE [found EXCEPT
                 !.ssh_tunnel_is_connected = Some(FALSE),
                 !.fullname = Some(FullName(NOT_CONNECTED, found.name))]

(***************************************************************************)
(* _RE_LAUNCH_CVD (instance.py lines 46-52):                               *)
(*   (?P<date_str>^[^/]+)(.*launch_cvd --daemon )+                         *)
(*   ((.*\s*-cpus\s)(?P<cpu>\d+))?  ((.*\s*-x_res\s)(?P<x_res>\d+))?       *)
(*   ((.*\s*-y_res\s)(?P<y_res>\d+))?  ((.*\s*-dpi\s)(?P<dpi>\d+))?        *)
(*   ((.*\s*-memory_mb\s)(?P<memory>\d+))?                                 *)
(*   ((.*\s*-blank_data_image_mb\s)(?P<disk>\d+))?                         *)
(***************************************************************************)
LaunchCvdGroups ==
    <<"date_str", "cpu", "x_res", "y_res", "dpi", "memory", "disk">>

LaunchCvdGroup(name) ==
    CHOOSE n \in 1 .. Len(LaunchCvdGroups) : LaunchCvdGroups[n] = name

FlagClause(flag, group) ==
    Optional(Star(AnyChar) \o Star(Space)
                \o Escaped(<<"-">> \o flag) \o Lit(<<Space>>)
                \o Group(LaunchCvdGroup(group), Plus(Digit)))

RE_LAUNCH_CVD ==
    Group(LaunchCvdGroup("date_str"), Plus(NotSlash))
        \o Repeated(Star(AnyChar)
                        \o Escaped(<<"l", "a", "u", "n", "c", "h", "_", "c", "v", "d",
                                     " ", "-", "-", "d", "a", "e", "m", "o", "n", " ">>))
        \o FlagClause(FLAG_CPUS, "cpu")
        \o FlagClause(FLAG_X_RES, "x_res")
        \o FlagClause(FLAG_Y_RES, "y_res")
        \o FlagClause(FLAG_DPI, "dpi")
        \o FlagClause(FLAG_MEMORY_MB, "memory")
        \o FlagClause(FLAG_BLANK_DATA_IMAGE_MB, "disk")
        \o <<Match>>

\* str.strip(): without the whitespace at either end.
Strip(text) ==
    LET inked == {i \in 1 .. Len(text) : text[i] \notin Whitespace}
    IN  IF inked = {} THEN <<>>
        ELSE SubSeq(text, CHOOSE i \in inked : \A j \in inked : i <= j,
                          CHOOSE i \in inked : \A j \in inked : j <= i)

\* "%s" of an optional text.
PercentS(v) == IF v = None THEN <<"N", "o", "n", "e">> ELSE v[1]

\* "%sx%s (%s)" % (x_res, y_res, dpi)
Display(x_res, y_res, dpi) ==
    PercentS(x_res) \o <<"x">> \o PercentS(y_res) \o <<" ", "(">>
        \o PercentS(dpi) \o <<")">>

\* constants.LOCAL_INS_NAME, as the text "%s" makes of it.
LOCAL_INS_NAME_TEXT ==
    <<"l", "o", "c", "a", "l", "-", "i", "n", "s", "t", "a", "n", "c", "e">>

\* lines 179-198: the Instance made of a line that matched.
LocalInstanceOf(line, match) ==
    LET x_res == MatchGroup(match, line, LaunchCvdGroup("x_res"))
        y_res == MatchGroup(match, line, LaunchCvdGroup("y_res"))
        dpi == MatchGroup(match, line, LaunchCvdGroup("dpi"))
        date_str == Strip(MatchGroup(match, line, LaunchCvdGroup("date_str"))[1])
    IN  [NewInstance EXCEPT
            !.name = Some(LOCAL_INS_NAME_TEXT),
            !.fullname = Some(FullName(LoopbackSerial(DEFAULT_ADB_PORT),
                                       Some(LOCAL_INS_NAME_TEXT))),
            !.createtime = Some(date_str),
            !.avd_type = Some(TYPE_CF),
            !.ip = Some(LOOPBACK),
            !.status = Some(INS_STATUS_RUNNING),
            !.adb_port = Some(DEFAULT_ADB_PORT),
            !.vnc_port = Some(DEFAULT_VNC_PORT),
            !.display = Some(Display(x_res, y_res, dpi)),
            !.is_local = Some(TRUE),
            !.ssh_tunnel_is_connected = Some(TRUE)]

\* The loop of lines 176-198 over the lines from index i on.
RECURSIVE LaunchCvdScan(_, _)
LaunchCvdScan(lines, i) ==
    IF i > Len(lines) THEN None
    ELSE LET match == ReMatch(RE_LAUNCH_CVD, Len(LaunchCvdGroups), lines[i])
         IN  IF match.ok THEN Some(LocalInstanceOf(lines[i], match))
             ELSE LaunchCvdScan(lines, i + 1)

\* LocalInstance.__new__, given utils.IsSupportedPlatform() and the output
\* of `ps -eo lstart,cmd`: an Instance, or None.
LocalInstance(supported, process_output) ==
    IF ~supported THEN None ELSE LaunchCvdScan(process_output, 1)

\* RemoteInstance.__init__ and _ProcessGceInstance, given the output of `ps`.
RemoteInstance(gce_instance, process_output) ==
    LET named == [NewInstance EXCEPT
                     !.name = gce_instance.name,
                     !.createtime = gce_instance.creationTimestamp,
                     !.status = gce_instance.status]
        ip == NatIPOf(gce_instance.networkInterfaces, None)
        tunnelled ==
            IF TruthyText(ip)
            THEN WithTunnel(named, ip,
                            GetAdbVncPortFromSSHTunnel(ip[1], process_output))
            ELSE named
    IN  [WithMetadata(tunnelled, gce_instance.metadata)
            EXCEPT !.is_local = Some(FALSE)]

(***************************************************************************)
(* The instance descriptions the provider may return.                      *)
(***************************************************************************)
Config(nat_ip) == [natIP |-> nat_ip]
Interface(nat_ips) ==
    [accessConfigs |-> [i \in 1 .. Len(nat_ips) |-> Config(nat_ips[i])]]

NetworkInterfaces ==
    {<<>>,
     <<Interface(<<>>)>>,
     <<Interface(<<None>>)>>,
     <<Interface(<<Some(IP_A)>>)>>,
     <<Interface(<<Some(IP_B)>>)>>,
     <<Interface(<<Some(IP_A), None>>)>>,
     <<Interface(<<None, Some(IP_A)>>)>>,
     <<Interface(<<Some(IP_A)>>), Interface(<<None>>)>>,
     <<Interface(<<Some(IP_B)>>), Interface(<<Some(IP_A)>>)>>,
     <<Interface(<<Some(IP_A)>>), Interface(<<>>)>>}

MetadataItems ==
    {<<>>,
     <<[key |-> "display", value |-> "1080x1920 (240)"],
       [key |-> "other", value |-> "x"],
       [key |-> "avd_type", value |-> "cuttlefish"],
       [key |-> "avd_flavor", value |-> "phone"]>>}

GceInstances ==
    [name : {Some(<<"i", "n", "s", "-", "1">>)},
     creationTimestamp : {Some("2018-10-25T06:32:08.182-07:00")},
     status : {Some("RUNNING"), Some("TERMINATED")},
     networkInterfaces : NetworkInterfaces,
     metadata : MetadataItems]

(***************************************************************************)
(* Listing: the process table is what it is when acloud runs; acloud looks *)
(* for the local instance, constructs a remote instance from a description *)
(* or asks for the forwarded ports of an ip, and the caller discards the   *)
(* answer after use.                                                       *)
(***************************************************************************)
InitList ==
    /\ running = <<>>
    /\ inv = [p \in Invokers |-> Idle]
    /\ ps \in SeqsUpTo(Procs, MaxProcs)
    /\ call = None
    /\ instance = None
    /\ ports = None
    /\ groups = None

NothingHeld == call = None

LocalInstance_new(supported) ==
    /\ NothingHeld
    /\ call' = Some([op |-> "LocalInstance", input |-> supported])
    /\ instance' = LocalInstance(supported, PsLstartOutput(ps))
    /\ UNCHANGED <<ps, ports, groups, lifecycleVars>>

RemoteInstance_init(gce_instance) ==
    /\ NothingHeld
    /\ call' = Some([op |-> "RemoteInstance", input |-> gce_instance])
    /\ instance' = Some(RemoteInstance(gce_instance, PsOutput(ps)))
    /\ UNCHANGED <<ps, ports, groups, lifecycleVars>>

GetAdbVncPortFromSSHTunnel_call(ip) ==
    /\ NothingHeld
    /\ call' = Some([op |-> "GetAdbVncPortFromSSHTunnel", input |-> ip])
    /\ ports' = Some([ip |-> ip,
                      forwarded |-> GetAdbVncPortFromSSHTunnel(ip, PsOutput(ps))])
    /\ UNCHANGED <<ps, instance, groups, lifecycleVars>>

Discard ==
    /\ ~NothingHeld
    /\ call' = None
    /\ instance' = None
    /\ ports' = None
    /\ groups' = None
    /\ UNCHANGED <<ps, lifecycleVars>>

NextList ==
    \/ \E supported \in BOOLEAN : LocalInstance_new(supported)
    \/ \E gce_instance \in GceInstances : RemoteInstance_init(gce_instance)
    \/ \E ip \in InstanceIPs : GetAdbVncPortFromSSHTunnel_call(ip)
    \/ Discard

SpecList == InitList /\ [][NextList]_vars

(***************************************************************************)
(* The launch pattern on its own: one launch_cvd process, started with any *)
(* of the six hardware flags in the order PrepareLaunchCVDCmd gives them,  *)
(* and its line of `ps -eo lstart,cmd` matched against _RE_LAUNCH_CVD.     *)
(***************************************************************************)
HW_FLAGS ==
    <<Flag(FLAG_CPUS, 2), Flag(FLAG_X_RES, 720), Flag(FLAG_Y_RES, 1280),
      Flag(FLAG_DPI, 320), Flag(FLAG_MEMORY_MB, 2048),
      Flag(FLAG_BLANK_DATA_IMAGE_MB, 4096)>>

\* The flags of HW_FLAGS whose positions are in `given`, in order.
RECURSIVE FlagsGiven(_, _)
FlagsGiven(given, i) ==
    IF i > Len(HW_FLAGS) THEN <<>>
    ELSE (IF i \in given THEN <<HW_FLAGS[i]>> ELSE <<>>)
             \o FlagsGiven(given, i + 1)

FlaggedProcs ==
    {LaunchCvd(LSTART_JAN, BIN_DIR, FlagsGiven(given, 1)) :
        given \in SUBSET (1 .. Len(HW_FLAGS))}
    \cup {LaunchCvdByHand(LSTART_JAN, BIN_DIR, FlagsGiven(given, 1)) :
              given \in SUBSET (1 .. Len(HW_FLAGS))}

\* match.group(name) for every named group, None where there is no match.
LaunchCvdMatch(line) ==
    LET match == ReMatch(RE_LAUNCH_CVD, Len(LaunchCvdGroups), line)
    IN  [ok |-> match.ok,
         group |-> [name \in {LaunchCvdGroups[n] : n \in 1 .. Len(LaunchCvdGroups)} |->
                       IF match.ok
                       THEN MatchGroup(match, line, LaunchCvdGroup(name))
                       ELSE None]]

InitMatch ==
    /\ running = <<>>
    /\ inv = [p \in Invokers |-> Idle]
    /\ ps \in {<<proc>> : proc \in FlaggedProcs}
    /\ call = None
    /\ instance = None
    /\ ports = None
    /\ groups = None

RE_LAUNCH_CVD_match(i) ==
    /\ NothingHeld
    /\ call' = Some([op |-> "_RE_LAUNCH_CVD.match", input |-> i])
    /\ groups' = Some(LaunchCvdMatch(PsLstartOutput(ps)[i]))
    /\ UNCHANGED <<ps, instance, ports, lifecycleVars>>

NextMatch ==
    \/ \E i \in 1 .. Len(ps) : RE_LAUNCH_CVD_match(i)
    \/ Discard

SpecMatch == InitMatch /\ [][NextMatch]_vars

(***************************************************************************)
(* Properties of the lifecycle.                                            *)
(***************************************************************************)
\* The positions of the events named `name` in a log.
At(log, name) == {i \in 1 .. Len(log) : log[i].ev = name}

Creating(p) == inv[p].op = "create"
Deleting(p) == inv[p].op = "delete"

\* C1: in a creation whose conflict check found an instance running, every
\* execution of the launch command comes after the confirmation prompt; with
\* a non-affirmative answer the launch command is not executed at all; with
\* an affirmative answer the stop command has been executed and has
\* completed (exit code 0), after the prompt, before the launch command is.
C1_StopPrecedesLaunch ==
    \A p \in Invokers :
        (Creating(p) /\ inv[p].found = Some(TRUE)) =>
            LET log == inv[p].log
            IN  /\ \A l \in At(log, "launch_cvd") :
                      \E a \in At(log, "GetUserAnswerYes") : a < l
                /\ inv[p].answer # Some(TRUE) => At(log, "launch_cvd") = {}
                /\ inv[p].answer = Some(TRUE) =>
                      \A l \in At(log, "launch_cvd") :
                          \E a \in At(log, "GetUserAnswerYes"),
                             s \in At(log, "stop_cvd") :
                              a < s /\ s < l /\ log[s].rc = 0

C1_Witness ==
    \E p \in Invokers :
        /\ Creating(p) /\ inv[p].found = Some(TRUE) /\ inv[p].answer = Some(TRUE)
        /\ At(inv[p].log, "stop_cvd") # {}
        /\ At(inv[p].log, "launch_cvd") # {}

\* C2: a creation whose local image directory is missing, or whose launch
\* package is missing (launch_cvd absent under $ANDROID_HOST_OUT/bin, or
\* $ANDROID_HOST_OUT unset), ends in the missing-artifacts error once the
\* artifacts have been looked at, with no subprocess executed and no report.
MissingArtifacts(p) ==
    \/ ~inv[p].image_ok
    \/ inv[p].host_out = None
    \/ ~inv[p].launch_exists

C2_MissingArtifactsError ==
    \A p \in Invokers :
        (Creating(p) /\ MissingArtifacts(p)
                     /\ inv[p].pc # "GetImageArtifactsPath") =>
            /\ inv[p].pc = "raised"
            /\ inv[p].error \in {Some("GetLocalImageError"),
                                 Some("GetCvdLocalHostPackageError")}
            /\ inv[p].log = <<>>
            /\ inv[p].report = None

\* C3: a creation has produced a report exactly when it has reported after
\* a launch command that exited with 0, and that report is SUCCESS with the
\* default adb and vnc ports; a launch command that exited non-zero ends the
\* creation in LaunchCVDFail, with no report and no vnc client launched.
LaunchedWith(p, rcs) ==
    \E l \in At(inv[p].log, "launch_cvd") : inv[p].log[l].rc \in rcs

C3_ReportIffLaunchSucceeded ==
    \A p \in Invokers :
        Creating(p) =>
            /\ inv[p].report # None <=> inv[p].pc = "returned"
            /\ (Over(p) \/ inv[p].report # None) =>
                  (inv[p].report # None <=> LaunchedWith(p, {0}))
            /\ inv[p].report # None =>
                  /\ inv[p].report[1].status = "SUCCESS"
                  /\ inv[p].report[1].data =
                        [devices |-> [adb_port |-> 6520, vnc_port |-> 6444]]
            /\ LaunchedWith(p, ExitCodes \ {0}) =>
                  /\ inv[p].pc = "raised"
                  /\ inv[p].error = Some("LaunchCVDFail")
                  /\ inv[p].report = None
                  /\ At(inv[p].log, "LaunchVNCFromReport") = {}

C3_Witness ==
    \E p \in Invokers :
        /\ Creating(p) /\ inv[p].pc = "returned"
        /\ LaunchedWith(p, {0})
        /\ inv[p].report # None

\* C4: after a non-affirmative answer at the relaunch prompt the creation
\* has exited cleanly (sys.exit(), no exception), the stop command and the
\* launch command were not executed, the instance found running is still
\* the one running, and there is no report.
C4_CancelLeavesInstance ==
    \A p \in Invokers :
        (Creating(p) /\ inv[p].answer = Some(FALSE)) =>
            /\ inv[p].pc = "exited"
            /\ inv[p].error = None
            /\ At(inv[p].log, "stop_cvd") = {}
            /\ At(inv[p].log, "launch_cvd") = {}
            /\ inv[p].report = None
            /\ running # <<>>
            /\ running = inv[p].procs_seen

C4_Witness ==
    \E p \in Invokers :
        /\ Creating(p) /\ inv[p].answer = Some(FALSE)
        /\ inv[p].pc = "exited"
        /\ Len(running) = 1

\* C5: with commands run one at a time to completion, at most one local
\* instance (launch_cvd process) is running in every reachable state.
C5_AtMostOneInstance == Len(running) <= 1

\* A relaunch: an instance was found, stopped, and a new one launched.
C5_Witness ==
    \E p \in Invokers :
        /\ Creating(p) /\ inv[p].found = Some(TRUE)
        /\ LaunchedWith(p, {0})
        /\ Len(running) = 1

C7_StopCvdBesideRunningLaunch ==
    \A p \in Invokers :
        (Deleting(p) /\ inv[p].found = Some(TRUE) /\ inv[p].stop_exists) =>
            /\ Len(inv[p].stop_cvd_cmd) > 0
            /\ inv[p].stop_cvd_cmd[Len(inv[p].stop_cvd_cmd)] = "stop_cvd"
            /\ Dirname(inv[p].stop_cvd_cmd) = Dirname(inv[p].procs_seen[1])

C7_Witness ==
    \E p \in Invokers :
        /\ Deleting(p) /\ inv[p].found = Some(TRUE) /\ inv[p].stop_exists
        /\ inv[p].procs_seen[1] = <<"tmp", "bin", "launch_cvd">>
        /\ inv[p].host_out = Some(<<"out", "host">>)
        /\ inv[p].stop_cvd_cmd = <<"tmp", "bin", "stop_cvd">>

(***************************************************************************)
(* Properties of discovery.                                                *)
(***************************************************************************)
\* C8: every Instance constructed has sshTunnelConnected true exactly when
\* its adb port and its vnc port are both present (not None).
C8_ConnectedIffBothPorts ==
    instance # None =>
        (instance[1].ssh_tunnel_is_connected = Some(TRUE)
            <=> (instance[1].adb_port # None /\ instance[1].vnc_port # None))

\* C9: every RemoteInstance constructed with an adb port has a fullname
\* that contains "127.0.0.1:<adb port>", and every one constructed without
\* an adb port has a fullname that contains "not connected".
C9_FullnameShowsConnection ==
    (instance # None /\ instance[1].is_local = Some(FALSE)) =>
        /\ instance[1].adb_port # None =>
              /\ instance[1].fullname # None
              /\ Contains(instance[1].fullname[1],
                          LoopbackSerial(instance[1].adb_port[1]))
        /\ instance[1].adb_port = None =>
              /\ instance[1].fullname # None
              /\ Contains(instance[1].fullname[1], NOT_CONNECTED)

\* The tunnels of the process table that forward to the default vnc and adb
\* ports of exactly this ip.
TunnelsTo(ip) ==
    {i \in 1 .. Len(ps) : /\ ps[i].kind = "ssh"
                          /\ ps[i].ip = ip
                          /\ ps[i].vnc.remote = DEFAULT_VNC_PORT
                          /\ ps[i].adb.remote = DEFAULT_ADB_PORT}

\* C10: GetAdbVncPortFromSSHTunnel(ip) answers with ports only when some
\* process forwards to the default vnc and adb ports of exactly that ip, and
\* then with the local ports of the first such process; when every tunnel
\* is to another ip or to other remote ports it answers (None, None).
C10_TunnelMatchIsExact ==
    ports # None =>
        LET to_ip == TunnelsTo(ports[1].ip)
            answer == ports[1].forwarded
        IN  /\ answer # ForwardedPorts(None, None) =>
                  /\ to_ip # {}
                  /\ LET i == CHOOSE i \in to_ip : \A j \in to_ip : i <= j
                     IN  answer = ForwardedPorts(Some(ps[i].vnc.local),
                                                 Some(ps[i].adb.local))
            /\ to_ip = {} => answer = ForwardedPorts(None, None)

\* The group _RE_LAUNCH_CVD names for a hardware flag.
GroupOfFlag(flag) ==
    CASE flag = FLAG_CPUS -> "cpu"
      [] flag = FLAG_X_RES -> "x_res"
      [] flag = FLAG_Y_RES -> "y_res"
      [] flag = FLAG_DPI -> "dpi"
      [] flag = FLAG_MEMORY_MB -> "memory"
      [] flag = FLAG_BLANK_DATA_IMAGE_MB -> "disk"

\* C11: the line of a launch_cvd process started with any of the six
\* hardware flags, in their fixed order, matches _RE_LAUNCH_CVD; every flag
\* given is captured with its own value and every flag left out is None.
C11_EveryFlagSubsetCaptured ==
    (call # None /\ call[1].op = "_RE_LAUNCH_CVD.match") =>
        LET proc == ps[call[1].input]
            given == {proc.flags[k] : k \in 1 .. Len(proc.flags)}
        IN  /\ groups[1].ok
            /\ \A f \in given :
                  groups[1].group[GroupOfFlag(f.name)] = Some(Str(f.value))
            /\ \A k \in 1 .. Len(HW_FLAGS) :
                  HW_FLAGS[k] \notin given =>
                      groups[1].group[GroupOfFlag(HW_FLAGS[k].name)] = None

\* The launch_cvd processes of the process table, by position.
LaunchCvdsOf(procs) == {i \in 1 .. Len(procs) : procs[i].kind = "launch_cvd"}

\* The value a process was given for a flag, as text; None when not given.
FlagGiven(proc, flag) ==
    LET at == {k \in 1 .. Len(proc.flags) : proc.flags[k].name = flag}
    IN  IF at = {} THEN None
        ELSE Some(Str(proc.flags[CHOOSE k \in at : TRUE].value))

\* The Instance the claim describes for a launch_cvd process: the display is
\* stated for a process that was given x_res, y_res and dpi.
IsLocalInstanceOf(self, proc) ==
    /\ self.name = Some(LOCAL_INS_NAME_TEXT)
    /\ self.ip = Some(LOOPBACK)
    /\ self.adb_port = Some(DEFAULT_ADB_PORT)
    /\ self.vnc_port = Some(DEFAULT_VNC_PORT)
    /\ self.status = Some(INS_STATUS_RUNNING)
    /\ self.is_local = Some(TRUE)
    /\ self.ssh_tunnel_is_connected = Some(TRUE)
    /\ self.createtime = Some(proc.lstart)
    /\ LET x_res == FlagGiven(proc, FLAG_X_RES)
           y_res == FlagGiven(proc, FLAG_Y_RES)
           dpi == FlagGiven(proc, FLAG_DPI)
       IN  (x_res # None /\ y_res # None /\ dpi # None) =>
               self.display = Some(x_res[1] \o <<"x">> \o y_res[1]
                                       \o <<" ", "(">> \o dpi[1] \o <<")">>)

\* C12: on a supported platform LocalInstance() is None when the process
\* table holds no launch_cvd process, and otherwise the Instance of the first
\* launch_cvd process of the table: its display, its start time as
\* createtime, the local name, the loopback ip, the default ports, RUNNING,
\* local and connected.
C12_LocalInstanceOfFirstLaunch ==
    (call # None /\ call[1].op = "LocalInstance" /\ call[1].input) =>
        LET launches == LaunchCvdsOf(ps)
        IN  IF launches = {} THEN instance = None
            ELSE /\ instance # None
                 /\ IsLocalInstanceOf(
                        instance[1],
                        ps[CHOOSE i \in launches : \A j \in launches : i <= j])

\* Every natIP of an instance description, in provider order: interface by
\* interface, access config by access config.
RECURSIVE NatIPsInOrder(_)
NatIPsInOrder(network_interfaces) ==
    IF Len(network_interfaces) = 0 THEN <<>>
    ELSE LET configs == Head(network_interfaces).accessConfigs
         IN  [i \in 1 .. Len(configs) |-> configs[i].natIP]
                 \o NatIPsInOrder(Tail(network_interfaces))

IsNotNone(v) == v # None

\* C13: a RemoteInstance has as ip the last natIP that is not None among all
\* access configs of all network interfaces, in order (None when there is
\* none): a None natIP after an address does not erase the address.
C13_IpIsLastNonNullNatIP ==
    (call # None /\ call[1].op = "RemoteInstance") =>
        LET given == SelectSeq(NatIPsInOrder(call[1].input.networkInterfaces),
                               IsNotNone)
        IN  instance[1].ip = IF Len(given) = 0 THEN None ELSE given[Len(given)]

\* C14: creations that interleave are kept apart by nothing but each one's
\* own conflict check: every launch command executed comes after its
\* invoker's check, which either found no instance running or was followed
\* by a stop command that succeeded.  The check and the launch are separate
\* steps, so two creations can both find nothing and both launch
\* (C14_Witness).
C14_OnlyOwnCheckGuardsLaunch ==
    \A p \in Invokers :
        Creating(p) =>
            LET log == inv[p].log
            IN  \A l \in At(log, "launch_cvd") :
                    /\ \E c \in At(log, "IsCommandRunning") : c < l
                    /\ \/ inv[p].found = Some(FALSE) /\ inv[p].procs_seen = <<>>
                       \/ \E t \in At(log, "stop_cvd") : t < l /\ log[t].rc = 0

\* Two creations both found no instance running, both executed the launch
\* command, and two instances are running.
C14_Witness ==
    \E p, q \in Invokers :
        /\ p # q
        /\ Creating(p) /\ inv[p].found = Some(FALSE) /\ LaunchedWith(p, {0})
        /\ Creating(q) /\ inv[q].found = Some(FALSE) /\ LaunchedWith(q, {0})
        /\ Len(running) = 2

\* The stop commands of p's log that exited with a code of rcs.
StoppedWith(p, rcs) ==
    \E t \in At(inv[p].log, "stop_cvd") : inv[p].log[t].rc \in rcs

\* C15: a creation that found an instance running, was answered yes and
\* whose stop command exited non-zero has ended in the stop command's own
\* CalledProcessError (not LaunchCVDFail), has not executed the launch
\* command, nor the vnc client, and has no report.
C15_StopFailurePropagates ==
    \A p \in Invokers :
        (/\ Creating(p)
         /\ inv[p].found = Some(TRUE) /\ inv[p].answer = Some(TRUE)
         /\ StoppedWith(p, ExitCodes \ {0})) =>
            /\ inv[p].pc = "raised"
            /\ inv[p].error = Some("CalledProcessError")
            /\ At(inv[p].log, "launch_cvd") = {}
            /\ At(inv[p].log, "LaunchVNCFromReport") = {}
            /\ inv[p].report = None

\* A relaunch whose stop command failed, with the instance still running.
C15_Witness ==
    \E p \in Invokers :
        /\ Creating(p)
        /\ inv[p].found = Some(TRUE) /\ inv[p].answer = Some(TRUE)
        /\ StoppedWith(p, ExitCodes \ {0})
        /\ inv[p].pc = "raised"
        /\ Len(running) = 1

====
